---- MODULE Spec2Model ----
(***************************************************************************)
(* Model of scr/scrape_data.py: extract_value_from_url (the per-URL retry  *)
(* loop) and process_urls (the row loop that drives it).                   *)
(*                                                                         *)
(* A step of the model runs the code from one blocking point (a            *)
(* requests.get, a time.sleep) to the next.                                *)
(***************************************************************************)
EXTENDS Integers, Sequences, FiniteSets, TLC

(***************************************************************************)
(* Bounds of the model.                                                    *)
(***************************************************************************)
\* longest table read from the input file
MaxRows == 2
\* largest max_retries a stand-alone call of extract_value_from_url is given
MaxRetries == 3

(***************************************************************************)
(* Program constants.                                                      *)
(***************************************************************************)
\* process_urls calls extract_value_from_url(url, max_retries=2, retry_delay=5)
BatchMaxRetries == 2
BatchRetryDelay == 5
\* def extract_value_from_url(url_to_scrape, max_retries=1, retry_delay=5)
DefaultRetryDelay == 5

VARIABLES
    \* ---- the environment ----
    file,                   \* what import_file finds: [status, rows]
    \* ---- process_urls ----
    pc,                     \* position of process_urls / main
    df,                     \* the DataFrame: a sequence of rows
    index,                  \* 1-based position of df.iterrows()
    total_requests_to_make,
    requests_made_count,
    output,                 \* the output file: [written, rows]
    write_calls,            \* number of calls of print_to_file
    \* ---- extract_value_from_url (the call in progress) ----
    epc,                    \* position inside the call
    max_retries,
    retry_delay,
    attempt,
    result,                 \* the returned value (NoResult while running)
    gets,                   \* requests.get calls issued by this call
    waits,                  \* time.sleep(retry_delay) calls made by this call
    outcomes,               \* what each GET of this call met, in order
    \* ---- history of the run, per row ----
    rowGets,                \* requests.get calls issued for each row
    rowCalls,               \* calls of extract_value_from_url for each row
    rowEnd,                 \* how the row's call ended
    throttled               \* rows whose request was followed by time.sleep(2)

vars == <<file, pc, df, index, total_requests_to_make, requests_made_count,
          output, write_calls, epc, max_retries, retry_delay, attempt,
          result, gets, waits, outcomes, rowGets, rowCalls, rowEnd, throttled>>

batchVars == <<file, pc, df, index, total_requests_to_make,
               requests_made_count, output, write_calls,
               rowGets, rowCalls, rowEnd, throttled>>

(***************************************************************************)
(* Values.                                                                 *)
(***************************************************************************)
\* A value of the results column / a return value of extract_value_from_url.
\* Strings built by the code's f-strings are kept as their parts.
Value(kind, status, att, text) ==
    [kind |-> kind, status |-> status, attempt |-> att, text |-> text]

\* Python None (a null cell)
None == Value("None", 0, 0, "")
\* the column does not exist in the table
NoColumn == Value("NoColumn", 0, 0, "")
\* extract_value_from_url has not returned yet
NoResult == Value("NoResult", 0, 0, "")
\* return extracted_text
Text(t) == Value("Text", 0, 0, t)
\* line 108 with the 0-based attempt counter printed as it is
HTTPErrorStringZeroBased(status_code, att) == Value("HTTP Error", status_code, att, "")

\* f"HTTP Error: {status_code} (Attempt {attempt + 1})"
HTTPErrorString(status_code, att) == Value("HTTP Error", status_code, att + 1, "")
\* "Request Timeout"
RequestTimeoutString == Value("Request Timeout", 0, 0, "")
\* f"Request Exception: {str(req_err)}"
RequestExceptionString == Value("Request Exception", 0, 0, "req_err")
\* f"Unexpected Error: {str(e)}"
UnexpectedErrorString == Value("Unexpected Error", 0, 0, "e")
\* f"Failed after {max_retries + 1} attempts (last error was likely 403 or Timeout)"
FailedAfterString(mr) == Value("Failed after", 0, mr + 1, "")

\* url cells of a loaded table: NaN (an empty cell of the CSV), a
\* whitespace-only string, a real URL
NaN == "<NaN>"
UrlCells == {NaN, "  ", "http://x"}
\* cells of a passed-through column
PayloadCells == {"a", "b"}

\* HTTP error statuses raise_for_status can raise for
HttpErrorStatuses == {403, 404, 500}

\* get_text(strip=True) of an element, or "absent" when soup.find gives None
Absent == "absent"
PrimaryTexts == {Absent, "", "P"}
FallbackTexts == {Absent, "", "F"}
Bodies == [primary : PrimaryTexts, fallback : FallbackTexts]
NoBody == [primary |-> Absent, fallback |-> Absent]

\* What one requests.get met: a 2xx response with a body, an HTTP error
\* status, a timeout, another RequestException, another Exception
Outcome(o, status, body) == [o |-> o, status |-> status, body |-> body]

\* pd.notna(cell)
notna(cell) == cell # NaN
\* str.strip() on the strings of the model
strip(s) == IF s \in {"", " ", "  "} THEN "" ELSE s
\* line 155: url = str(row['url']) if pd.notna(row['url']) else ""
UrlOf(row) == IF notna(row.url) THEN row.url ELSE ""
\* df['url'].count(): the number of non-NaN cells of the column
CountUrl(d) == Cardinality({i \in 1..Len(d) : notna(d[i].url)})

Row(u, p, r) == [url |-> u, payload |-> p, results |-> r]

\* The tables import_file can return: up to MaxRows rows; either no row has
\* a results column or every row has one
RECURSIVE TablesOfLen(_, _)
TablesOfLen(n, r) ==
    IF n = 0 THEN {<<>>}
    ELSE {Append(t, Row(u, p, r)) :
            t \in TablesOfLen(n - 1, r), u \in UrlCells, p \in PayloadCells}

Tables ==
    UNION {TablesOfLen(n, NoColumn) \cup TablesOfLen(n, Text("old")) :
             n \in 0..MaxRows}

Files ==
    {[status |-> "ok", rows |-> t] : t \in Tables}
      \cup {[status |-> "not_found", rows |-> <<>>],
            [status |-> "error", rows |-> <<>>]}

extractVars == <<epc, max_retries, retry_delay, attempt, result, gets, waits,
                 outcomes>>

(***************************************************************************)
(* extract_value_from_url                                                  *)
(***************************************************************************)
\* extracted_text = None (line 71)
NoneText == "<None>"

\* lines 82-88 with the two lookups swapped: the fallback element first
ExtractedTextFallbackFirst(body) ==
    IF body.fallback # Absent THEN body.fallback
    ELSE IF body.primary # Absent THEN body.primary
    ELSE NoneText

\* lines 82-88: the primary element's text if the element is found, else the
\* fallback element's text if that one is found, else still None
ExtractedText(body) ==
    IF body.primary # Absent THEN body.primary
    ELSE IF body.fallback # Absent THEN body.fallback
    ELSE NoneText

\* line 90 as "if extracted_text is not None": an empty text is returned
TruthyNotNone(t) == t # NoneText

\* line 90: if extracted_text:
Truthy(t) == t \notin {"", NoneText}

\* lines 90-95: the value returned after a successful response
SuccessValue(body) ==
    IF Truthy(ExtractedText(body)) THEN Text(ExtractedText(body)) ELSE None

\* line 74 with the last attempt cut off: while attempt < max_retries
LoopConditionStrict(att, mr) == att < mr

\* line 74: while attempt <= max_retries
LoopCondition(att, mr) == att <= mr

\* line 101 without the test for the status: every HTTP error is retried
RetryOnAnyStatus(status_code, att, mr) == att < mr

\* line 101 without the test for remaining attempts
RetryOn403Always(status_code, att, mr) == status_code = 403

\* line 101: if status_code == 403 and attempt < max_retries
RetryOn403(status_code, att, mr) == status_code = 403 /\ att < mr

\* line 112 without the test for remaining attempts: if True
RetryOnTimeoutAlways(att, mr) == TRUE

\* line 112 with the last attempt retried too: if attempt <= max_retries
RetryOnTimeoutPastLast(att, mr) == att <= mr

\* line 112: if attempt < max_retries
RetryOnTimeout(att, mr) == att < mr

\* The loop test of line 74 with the attempt counter at att: another GET, or
\* the return of line 129
LoopTest(att, mr) ==
    /\ attempt' = att
    /\ IF LoopCondition(att, mr)
         THEN epc' = "get" /\ result' = NoResult
         ELSE epc' = "returned" /\ result' = FailedAfterString(mr)

\* lines 66-74: the call starts
Enter(mr, rd) ==
    /\ max_retries' = mr
    /\ retry_delay' = rd
    /\ gets' = 0
    /\ waits' = 0
    /\ outcomes' = <<>>
    /\ LoopTest(0, mr)

\* line 77: one more requests.get, which met outcome o
IssueGet(o) ==
    /\ epc = "get"
    /\ gets' = gets + 1
    /\ outcomes' = Append(outcomes, o)
    /\ rowGets' = IF pc = "extract"
                    THEN [rowGets EXCEPT ![index] = @ + 1]
                    ELSE rowGets
    /\ UNCHANGED <<file, pc, df, index, total_requests_to_make,
                   requests_made_count, output, write_calls,
                   rowCalls, rowEnd, throttled, max_retries, retry_delay>>

\* return v
Return(v) ==
    /\ epc' = "returned"
    /\ result' = v
    /\ UNCHANGED <<attempt, waits>>

\* continue after time.sleep(retry_delay) is due: lines 102-103, 113-114
GoSleep ==
    /\ epc' = "sleep"
    /\ UNCHANGED <<result, attempt, waits>>

\* lines 93-95 taken for a transient condition: with attempts remaining, a
\* page without text is waited on and requested again
GetSuccessRetryNotFound ==
    \E body \in Bodies :
        /\ IssueGet(Outcome("2xx", 200, body))
        /\ IF SuccessValue(body) = None /\ attempt < max_retries
             THEN GoSleep
             ELSE Return(SuccessValue(body))

\* lines 77-95: a 2xx response with some body
GetSuccess ==
    \E body \in Bodies :
        /\ IssueGet(Outcome("2xx", 200, body))
        /\ Return(SuccessValue(body))

\* lines 97-108: raise_for_status raises HTTPError
GetHTTPError ==
    \E status_code \in HttpErrorStatuses :
        /\ IssueGet(Outcome("http", status_code, NoBody))
        /\ IF RetryOn403(status_code, attempt, max_retries)
             THEN GoSleep
             ELSE Return(HTTPErrorString(status_code, attempt))

\* lines 110-118: requests.get raises Timeout
GetTimeout ==
    /\ IssueGet(Outcome("timeout", 0, NoBody))
    /\ IF RetryOnTimeout(attempt, max_retries)
         THEN GoSleep
         ELSE Return(RequestTimeoutString)

\* lines 120-122: any other RequestException
GetRequestException ==
    /\ IssueGet(Outcome("request_exception", 0, NoBody))
    /\ Return(RequestExceptionString)

\* lines 124-126 missing: the exception leaves extract_value_from_url and
\* process_urls, and is caught by main (line 191)
GetUnexpectedErrorEscapes ==
    /\ epc = "get"
    /\ gets' = gets + 1
    /\ outcomes' = Append(outcomes, Outcome("unexpected", 0, NoBody))
    /\ rowGets' = IF pc = "extract"
                    THEN [rowGets EXCEPT ![index] = @ + 1]
                    ELSE rowGets
    /\ pc' = IF pc = "extract" THEN "main_except" ELSE pc
    /\ epc' = "raised"
    /\ UNCHANGED <<file, df, index, total_requests_to_make,
                   requests_made_count, output, write_calls, rowCalls,
                   rowEnd, throttled, max_retries, retry_delay, result,
                   attempt, waits>>

\* lines 124-126: any other Exception
GetUnexpectedError ==
    /\ IssueGet(Outcome("unexpected", 0, NoBody))
    /\ Return(UnexpectedErrorString)

\* lines 103-105 and 114-116: time.sleep(retry_delay); attempt += 1;
\* continue, which takes the loop test of line 74
RetrySleep ==
    /\ epc = "sleep"
    /\ waits' = waits + 1
    /\ LoopTest(attempt + 1, max_retries)
    /\ UNCHANGED <<batchVars, max_retries, retry_delay, gets, outcomes>>

ExtractStep ==
    \/ GetSuccess
    \/ GetHTTPError
    \/ GetTimeout
    \/ GetRequestException
    \/ GetUnexpectedError
    \/ RetrySleep

(***************************************************************************)
(* process_urls and main                                                   *)
(***************************************************************************)
\* line 149 guarded by "if 'results' not in df": an existing column is kept
WithResultsColumnKeepOld(d) ==
    [i \in 1..Len(d) |->
        IF d[i].results = NoColumn THEN [d[i] EXCEPT !.results = None] ELSE d[i]]

\* line 149: df['results'] = None, which adds the column or overwrites it
WithResultsColumn(d) == [i \in 1..Len(d) |-> [d[i] EXCEPT !.results = None]]

\* line 159 without the strip: a whitespace-only url is requested
HasUrlNoStrip(row) == UrlOf(row) # ""

\* line 159: if url.strip()
HasUrl(row) == strip(UrlOf(row)) # ""

\* line 163: if requests_made_count < total_requests_to_make
ThrottleNeeded(made, total) == made < total

\* How a call ended, for the history of the run: the last outcome, and for a
\* 2xx response whether a text was returned
EndOf(os, v) ==
    IF os = <<>> THEN "no_get"
    ELSE IF os[Len(os)].o = "2xx"
           THEN (IF v.kind = "Text" THEN "2xx_text" ELSE "2xx_not_found")
    ELSE IF os[Len(os)].o = "http" THEN "http"
    ELSE os[Len(os)].o

\* lines 143-152 without the test of lines 145-147: an empty table goes
\* through the loop and is written
StartNoEmptyCheck ==
    /\ pc = "start"
    /\ IF file.status = "error"
         THEN /\ pc' = "main_except"
              /\ UNCHANGED <<df, index, total_requests_to_make,
                             requests_made_count>>
         ELSE /\ pc' = "loop"
              /\ df' = WithResultsColumn(file.rows)
              /\ total_requests_to_make' = CountUrl(file.rows)
              /\ requests_made_count' = 0
              /\ index' = 1
    /\ UNCHANGED <<file, output, write_calls, extractVars,
                   rowGets, rowCalls, rowEnd, throttled>>

\* lines 143-152 (and 182-192 when import_file raises): load the table,
\* return if it is empty, else add the results column and count the urls
Start ==
    /\ pc = "start"
    /\ IF file.status = "error"
         THEN /\ pc' = "main_except"
              /\ UNCHANGED <<df, index, total_requests_to_make,
                             requests_made_count>>
         ELSE IF Len(file.rows) = 0
         THEN /\ pc' = "done"
              /\ df' = file.rows
              /\ UNCHANGED <<index, total_requests_to_make,
                             requests_made_count>>
         ELSE /\ pc' = "loop"
              /\ df' = WithResultsColumn(file.rows)
              /\ total_requests_to_make' = CountUrl(file.rows)
              /\ requests_made_count' = 0
              /\ index' = 1
    /\ UNCHANGED <<file, output, write_calls, extractVars,
                   rowGets, rowCalls, rowEnd, throttled>>

\* lines 154-160 not waiting for the call in progress: while the current
\* row sits in its retry wait the next row's url is requested
CallExtractOverlapping ==
    \/ /\ pc = "loop"
       /\ index <= Len(df)
       /\ HasUrl(df[index])
       /\ pc' = "extract"
       /\ Enter(BatchMaxRetries, BatchRetryDelay)
       /\ rowCalls' = [rowCalls EXCEPT ![index] = @ + 1]
       /\ UNCHANGED <<file, df, index, total_requests_to_make,
                      requests_made_count, output, write_calls,
                      rowGets, rowEnd, throttled>>
    \/ /\ pc = "extract"
       /\ epc = "sleep"
       /\ index < Len(df)
       /\ HasUrl(df[index + 1])
       /\ index' = index + 1
       /\ Enter(BatchMaxRetries, BatchRetryDelay)
       /\ rowCalls' = [rowCalls EXCEPT ![index + 1] = @ + 1]
       /\ UNCHANGED <<file, pc, df, total_requests_to_make,
                      requests_made_count, output, write_calls,
                      rowGets, rowEnd, throttled>>

\* lines 154-160: the next row has a url: call extract_value_from_url
CallExtract ==
    /\ pc = "loop"
    /\ index <= Len(df)
    /\ HasUrl(df[index])
    /\ pc' = "extract"
    /\ Enter(BatchMaxRetries, BatchRetryDelay)
    /\ rowCalls' = [rowCalls EXCEPT ![index] = @ + 1]
    /\ UNCHANGED <<file, df, index, total_requests_to_make,
                   requests_made_count, output, write_calls,
                   rowGets, rowEnd, throttled>>

\* lines 154-159, 165-166: the next row has no url: skip it
SkipRow ==
    /\ pc = "loop"
    /\ index <= Len(df)
    /\ ~HasUrl(df[index])
    /\ index' = index + 1
    /\ UNCHANGED <<file, pc, df, total_requests_to_make, requests_made_count,
                   output, write_calls, extractVars,
                   rowGets, rowCalls, rowEnd, throttled>>

\* lines 160-163: the call returned: store its value, count the request and
\* decide on the throttle wait
StoreResult ==
    /\ pc = "extract"
    /\ epc = "returned"
    /\ df' = [df EXCEPT ![index].results = result]
    /\ requests_made_count' = requests_made_count + 1
    /\ rowEnd' = [rowEnd EXCEPT ![index] = EndOf(outcomes, result)]
    /\ IF ThrottleNeeded(requests_made_count', total_requests_to_make)
         THEN pc' = "throttle" /\ index' = index
         ELSE pc' = "loop" /\ index' = index + 1
    \* the locals of the finished call are gone
    /\ epc' = "idle"
    /\ result' = NoResult
    /\ attempt' = 0
    /\ gets' = 0
    /\ waits' = 0
    /\ outcomes' = <<>>
    /\ UNCHANGED <<file, total_requests_to_make, output, write_calls,
                   max_retries, retry_delay, rowGets, rowCalls, throttled>>

\* line 164 followed by a second pass over the same row
ThrottleSleepNoAdvance ==
    /\ pc = "throttle"
    /\ throttled' = throttled \cup {index}
    /\ index' = index
    /\ pc' = "loop"
    /\ UNCHANGED <<file, df, total_requests_to_make, requests_made_count,
                   output, write_calls, extractVars,
                   rowGets, rowCalls, rowEnd>>

\* line 164: time.sleep(2), then the next row
ThrottleSleep ==
    /\ pc = "throttle"
    /\ throttled' = throttled \cup {index}
    /\ index' = index + 1
    /\ pc' = "loop"
    /\ UNCHANGED <<file, df, total_requests_to_make, requests_made_count,
                   output, write_calls, extractVars,
                   rowGets, rowCalls, rowEnd>>

\* line 47 on df.dropna(subset=['url']): rows without a url are not written
print_to_fileDropNa(d, ok) ==
    /\ write_calls' = write_calls + 1
    /\ output' = IF ok
                   THEN [written |-> TRUE,
                         rows |-> SelectSeq(d, LAMBDA r : notna(r.url))]
                   ELSE output

\* lines 38-50: df.to_csv, whose failure is logged and swallowed
print_to_file(d, ok) ==
    /\ write_calls' = write_calls + 1
    /\ output' = IF ok THEN [written |-> TRUE, rows |-> d] ELSE output

\* lines 169-172 placed inside the loop: the table is written once the
\* first row is done
FinishAfterFirstRow ==
    /\ pc = "loop"
    /\ index > 1
    /\ \E ok \in BOOLEAN : print_to_file(df, ok)
    /\ pc' = "done"
    /\ UNCHANGED <<file, df, index, total_requests_to_make,
                   requests_made_count, extractVars,
                   rowGets, rowCalls, rowEnd, throttled>>

\* lines 169-172: every row was visited: write the table
Finish ==
    /\ pc = "loop"
    /\ index > Len(df)
    /\ \E ok \in BOOLEAN : print_to_file(df, ok)
    /\ pc' = "done"
    /\ UNCHANGED <<file, df, index, total_requests_to_make,
                   requests_made_count, extractVars,
                   rowGets, rowCalls, rowEnd, throttled>>

(***************************************************************************)
(* The run of main: process_urls on some input file.                       *)
(***************************************************************************)
Init ==
    /\ file \in Files
    /\ pc = "start"
    /\ df = <<>>
    /\ index = 0
    /\ total_requests_to_make = 0
    /\ requests_made_count = 0
    /\ output = [written |-> FALSE, rows |-> <<>>]
    /\ write_calls = 0
    /\ epc = "idle"
    /\ max_retries = BatchMaxRetries
    /\ retry_delay = BatchRetryDelay
    /\ attempt = 0
    /\ result = NoResult
    /\ gets = 0
    /\ waits = 0
    /\ outcomes = <<>>
    /\ rowGets = [i \in 1..Len(file.rows) |-> 0]
    /\ rowCalls = [i \in 1..Len(file.rows) |-> 0]
    /\ rowEnd = [i \in 1..Len(file.rows) |-> "none"]
    /\ throttled = {}

Next ==
    \/ Start
    \/ CallExtract
    \/ SkipRow
    \/ ExtractStep
    \/ StoreResult
    \/ ThrottleSleep
    \/ Finish

Spec == Init /\ [][Next]_vars

(***************************************************************************)
(* One call of extract_value_from_url with any max_retries in              *)
(* 0..MaxRetries.                                                          *)
(***************************************************************************)
InitExtract ==
    /\ file = [status |-> "not_found", rows |-> <<>>]
    /\ pc = "call"
    /\ df = <<>>
    /\ index = 0
    /\ total_requests_to_make = 0
    /\ requests_made_count = 0
    /\ output = [written |-> FALSE, rows |-> <<>>]
    /\ write_calls = 0
    /\ epc = "idle"
    /\ max_retries \in 0..MaxRetries
    /\ retry_delay = DefaultRetryDelay
    /\ attempt = 0
    /\ result = NoResult
    /\ gets = 0
    /\ waits = 0
    /\ outcomes = <<>>
    /\ rowGets = <<>>
    /\ rowCalls = <<>>
    /\ rowEnd = <<>>
    /\ throttled = {}

\* extract_value_from_url(url, max_retries, retry_delay) is called
Call ==
    /\ pc = "call"
    /\ epc = "idle"
    /\ Enter(max_retries, retry_delay)
    /\ UNCHANGED batchVars

NextExtract ==
    \/ Call
    \/ ExtractStep

SpecExtract == InitExtract /\ [][NextExtract]_vars

\* The call runs on: requests.get returns or raises within its timeout of
\* 15 seconds (line 77) and time.sleep(retry_delay) ends
SpecExtractFair == SpecExtract /\ WF_vars(NextExtract)

(***************************************************************************)
(* Vocabulary of the properties.                                           *)
(***************************************************************************)
\* a url cell that is neither missing nor empty nor whitespace-only
NonBlank(cell) == cell \notin {NaN, "", " ", "  "}

\* the rows of the loaded table
Loaded == file.rows
Rows == 1..Len(Loaded)

\* process_urls has returned after working on a non-empty table
Completed == pc = "done" /\ Len(Loaded) > 0

\* the k-th GET of the call met HTTP status s
Met(k, s) == outcomes[k].o = "http" /\ outcomes[k].status = s
MetTimeout(k) == outcomes[k].o = "timeout"
Last == outcomes[Len(outcomes)]

\* the failure strings of extract_value_from_url
FailureKinds == {"HTTP Error", "Request Timeout", "Request Exception",
                 "Unexpected Error", "Failed after"}

\* the body holds a target element (primary or fallback) with non-empty text
HasTargetText(body) ==
    body.primary \notin {Absent, ""} \/ body.fallback \notin {Absent, ""}

\* the texts of the target elements of the body that have non-empty text
TargetTexts(body) == {body.primary, body.fallback} \ {Absent, ""}

\* the element the lookup settles on (the primary one when it is present,
\* else the fallback one) has non-empty text
SelectedHasText(body) ==
    \/ body.primary \notin {Absent, ""}
    \/ body.primary = Absent /\ body.fallback \notin {Absent, ""}

SelectedText(body) ==
    IF body.primary # Absent THEN body.primary ELSE body.fallback

(***************************************************************************)
(* C1. After process_urls completes on a non-empty table, a row's results  *)
(* field is populated exactly when its url was non-blank in the input,     *)
(* whatever extract_value_from_url returned for it.                        *)
(* Stated as claimed; it fails when the call returns None (element not     *)
(* found).                                                                 *)
(***************************************************************************)
C1_PopulatedIffNonBlank ==
    Completed =>
        \A i \in Rows : (df[i].results # None) <=> NonBlank(Loaded[i].url)

(***************************************************************************)
(* C1, amended. After process_urls completes on a non-empty table, a row's *)
(* results field is populated exactly when its url was non-blank in the    *)
(* input and its call did not end at "element not found" (return None,     *)
(* line 95); blank-url rows and element-not-found rows hold None.          *)
(***************************************************************************)
C1_PopulatedIffNonBlankAndFound ==
    Completed =>
        \A i \in Rows :
            (df[i].results # None)
                <=> (NonBlank(Loaded[i].url) /\ rowEnd[i] # "2xx_not_found")

C1_Witness ==
    /\ Completed
    /\ \E i, j \in Rows :
          /\ rowEnd[i] = "2xx_not_found"
          /\ df[i].results = None
          /\ df[j].results.kind \in FailureKinds

C3_ThrottleIffRequestRemains ==
    Completed =>
        \A i \in Rows :
            (i \in throttled)
                <=> (/\ NonBlank(Loaded[i].url)
                     /\ \E j \in Rows : j > i /\ NonBlank(Loaded[j].url))

(***************************************************************************)
(* C4. For max_retries >= 1: one or more 403 responses, then (on an        *)
(* attempt numbered at most max_retries + 1) a 2xx response that contains  *)
(* a target element with non-empty text, make the call return that text    *)
(* and not a failure string.                                               *)
(* Stated as claimed; it fails when the primary element is present with    *)
(* empty text and only the fallback element has text: None is returned.    *)
(***************************************************************************)
C4_RetryThenAnyTargetText ==
    (/\ epc = "returned"
     /\ max_retries >= 1
     /\ Len(outcomes) >= 2
     /\ \A k \in 1..(Len(outcomes) - 1) : Met(k, 403)
     /\ Last.o = "2xx"
     /\ HasTargetText(Last.body))
        => /\ result.kind = "Text"
           /\ result.text \in TargetTexts(Last.body)

(***************************************************************************)
(* C4, amended. For max_retries >= 1: a 403 response on an attempt that is *)
(* not the last one is not terminal (the call waits and issues another     *)
(* GET), and one or more 403 responses followed by a 2xx response whose    *)
(* selected element (the primary one if present, else the fallback one)    *)
(* has non-empty text make the call return that element's text and not a   *)
(* failure string.                                                         *)
(***************************************************************************)
C4_RetryThenSelectedText ==
    /\ (/\ epc # "idle"
        /\ max_retries >= 1
        /\ Len(outcomes) <= max_retries
        /\ \A k \in 1..Len(outcomes) : Met(k, 403))
          => epc \in {"get", "sleep"} /\ result = NoResult
    /\ (/\ epc = "returned"
        /\ max_retries >= 1
        /\ Len(outcomes) >= 2
        /\ \A k \in 1..(Len(outcomes) - 1) : Met(k, 403)
        /\ Last.o = "2xx"
        /\ SelectedHasText(Last.body))
          => /\ result = Text(SelectedText(Last.body))
             /\ result.kind \notin FailureKinds
             /\ Len(outcomes) <= max_retries + 1

C4_Witness ==
    /\ epc = "returned"
    /\ max_retries >= 2
    /\ Len(outcomes) = max_retries + 1
    /\ \A k \in 1..(Len(outcomes) - 1) : Met(k, 403)
    /\ Last.o = "2xx"
    /\ Last.body.primary = Absent
    /\ result = Text("F")

(***************************************************************************)
(* C5. For max_retries >= 0: when every attempt up to and including the    *)
(* last receives 403, the call issues exactly max_retries + 1 GETs and     *)
(* returns a failure string that ends in the attempt count                 *)
(* max_retries + 1.                                                        *)
(***************************************************************************)
C5_All403 ==
    (/\ epc = "returned"
     /\ \A k \in 1..Len(outcomes) : Met(k, 403))
        => /\ gets = max_retries + 1
           /\ Len(outcomes) = max_retries + 1
           /\ result.kind \in FailureKinds
           /\ result.attempt = max_retries + 1

C5_Witness ==
    /\ epc = "returned"
    /\ max_retries >= 2
    /\ gets = max_retries + 1
    /\ \A k \in 1..Len(outcomes) : Met(k, 403)
    /\ result.kind = "HTTP Error"

(***************************************************************************)
(* C6. When attempt n (1-based) receives an HTTP error status other than   *)
(* 403, the call has returned "HTTP Error: <status> (Attempt n)" with no   *)
(* further GET and no retry wait after it, even if attempts remain; a 404  *)
(* on the first attempt gives "HTTP Error: 404 (Attempt 1)" after one GET. *)
(***************************************************************************)
C6_OtherStatusIsTerminal ==
    \A n \in 1..Len(outcomes) :
        (outcomes[n].o = "http" /\ outcomes[n].status # 403)
            => /\ n = Len(outcomes)
               /\ gets = n
               /\ waits = n - 1
               /\ epc = "returned"
               /\ result = Value("HTTP Error", outcomes[n].status, n, "")

C6_Witness ==
    /\ epc = "returned"
    /\ Len(outcomes) = 2
    /\ max_retries >= 2
    /\ Met(2, 500)
    /\ waits = 1

(***************************************************************************)
(* C7. When an attempt times out: with attempts remaining the call waits   *)
(* retry_delay, increments the attempt counter and is about to issue       *)
(* another GET; with none remaining it returns "Request Timeout". A        *)
(* timeout on every attempt gives "Request Timeout" after max_retries + 1  *)
(* GETs and max_retries waits.                                             *)
(***************************************************************************)
C7_Timeout ==
    /\ (outcomes # <<>> /\ Last.o = "timeout" /\ Len(outcomes) <= max_retries)
          => /\ result = NoResult
             /\ \/ epc = "sleep" /\ attempt = Len(outcomes) - 1
                                 /\ waits = Len(outcomes) - 1
                \/ epc = "get" /\ attempt = Len(outcomes)
                               /\ waits = Len(outcomes)
    /\ (outcomes # <<>> /\ Last.o = "timeout" /\ Len(outcomes) > max_retries)
          => /\ epc = "returned"
             /\ result = RequestTimeoutString
             /\ waits = Len(outcomes) - 1
    /\ (epc = "returned" /\ \A k \in 1..Len(outcomes) : MetTimeout(k))
          => /\ result = RequestTimeoutString
             /\ gets = max_retries + 1
             /\ waits = max_retries
    /\ (epc = "sleep" => ENABLED RetrySleep)
    /\ (epc = "get" => ENABLED GetTimeout)

C7_Witness ==
    /\ epc = "returned"
    /\ max_retries >= 2
    /\ \A k \in 1..Len(outcomes) : MetTimeout(k)
    /\ gets = max_retries + 1
    /\ waits = max_retries

\* the number of columns of a row: url, payload, and results if it exists
NCols(row) == IF row.results = NoColumn THEN 2 ELSE 3

(***************************************************************************)
(* C8. Per-URL failures are data: whatever the attempts of a call meet,    *)
(* extract_value_from_url returns a value (a text, None or a failure       *)
(* string) and raises nothing; process_urls can always go on, and when it  *)
(* has returned on a non-empty table it has visited every row, called      *)
(* extract_value_from_url for every non-blank url and called               *)
(* print_to_file once with the whole table. The run is abandoned only when *)
(* import_file raises, before any url is requested.                        *)
(***************************************************************************)
C8_FailuresAreData ==
    /\ epc \in {"idle", "get", "sleep", "returned"}
    /\ (epc = "returned" => result.kind \in {"Text", "None"} \cup FailureKinds)
    /\ (pc = "main_except"
          => file.status = "error" /\ \A i \in Rows : rowCalls[i] = 0)
    /\ (pc \notin {"done", "main_except"} => ENABLED Next)
    /\ (Completed
          => /\ index = Len(df) + 1
             /\ write_calls = 1
             /\ \A i \in Rows :
                   NonBlank(Loaded[i].url)
                       => /\ rowCalls[i] = 1
                          /\ rowGets[i] >= 1
                          /\ rowEnd[i] # "none"
                          /\ df[i].results.kind \in {"Text", "None"} \cup FailureKinds
             /\ (output.written => output.rows = df))

C8_Witness ==
    /\ Completed
    /\ output.written
    /\ \E i, j \in Rows :
          /\ i < j
          /\ rowEnd[i] = "unexpected"
          /\ df[i].results = UnexpectedErrorString
          /\ rowEnd[j] = "2xx_text"

(***************************************************************************)
(* C9. For a row whose url is blank or missing in the input (NaN, empty,   *)
(* whitespace-only) process_urls issues no HTTP request, and the row's     *)
(* results field is None in the table and in the output.                   *)
(***************************************************************************)
C9_BlankRowsUntouched ==
    \A i \in Rows :
        ~NonBlank(Loaded[i].url)
            => /\ rowGets[i] = 0
               /\ rowCalls[i] = 0
               /\ (pc \in {"extract", "throttle"} => index # i)
               /\ (df # <<>> => df[i].results = None)
               /\ (output.written => output.rows[i].results = None)

C9_Witness ==
    /\ output.written
    /\ \E i, j \in Rows :
          /\ Loaded[i].url = "  "
          /\ Loaded[i].results = Text("old")
          /\ rowGets[j] > 1

(***************************************************************************)
(* C10. The table written by process_urls has the rows of the loaded       *)
(* table, as many and in the same order, every original column value       *)
(* unmodified, plus one results column.                                    *)
(* Stated as claimed; it fails when the input already has a column named   *)
(* results: line 149 overwrites it and no column is added.                 *)
(***************************************************************************)
C10_SameRowsPlusOneColumn ==
    output.written =>
        /\ Len(output.rows) = Len(Loaded)
        /\ \A i \in Rows :
              /\ output.rows[i].url = Loaded[i].url
              /\ output.rows[i].payload = Loaded[i].payload
              /\ (Loaded[i].results # NoColumn
                    => output.rows[i].results = Loaded[i].results)
              /\ NCols(output.rows[i]) = NCols(Loaded[i]) + 1

(***************************************************************************)
(* C10, amended. The table written by process_urls has the rows of the     *)
(* loaded table, as many and in the same order, with the value of every    *)
(* original column other than results unmodified; it has a results column, *)
(* which is one more column when the input has none and the input's own    *)
(* column, overwritten, when it has one.                                   *)
(***************************************************************************)
C10_SameRowsWithResultsColumn ==
    output.written =>
        /\ Len(output.rows) = Len(Loaded)
        /\ \A i \in Rows :
              /\ output.rows[i].url = Loaded[i].url
              /\ output.rows[i].payload = Loaded[i].payload
              /\ output.rows[i].results # NoColumn
              /\ NCols(output.rows[i]) =
                    IF Loaded[i].results = NoColumn
                       THEN NCols(Loaded[i]) + 1
                       ELSE NCols(Loaded[i])

C10_Witness ==
    /\ output.written
    /\ Len(Loaded) >= 2
    /\ Loaded[1].url = NaN
    /\ Loaded[1].payload # Loaded[2].payload
    /\ Loaded[1].results = NoColumn
    /\ rowEnd[2] = "http"

(***************************************************************************)
(* C11. A 2xx response whose body holds neither the primary nor the        *)
(* fallback element makes the call return None on that attempt: no retry   *)
(* wait and no further GET follow even if attempts remain, and the result  *)
(* is not a failure string.                                                *)
(***************************************************************************)
C11_NeitherElementIsTerminal ==
    \A n \in 1..Len(outcomes) :
        (/\ outcomes[n].o = "2xx"
         /\ outcomes[n].body.primary = Absent
         /\ outcomes[n].body.fallback = Absent)
            => /\ n = Len(outcomes)
               /\ gets = n
               /\ waits = n - 1
               /\ epc = "returned"
               /\ result = None
               /\ result.kind \notin FailureKinds

C11_Witness ==
    /\ epc = "returned"
    /\ max_retries >= 2
    /\ Len(outcomes) = 1
    /\ Last.o = "2xx"
    /\ Last.body = NoBody
    /\ result = None

(***************************************************************************)
(* C12. On a 2xx response the primary selector is checked first: a primary *)
(* element with non-empty text gives its text whether or not the fallback  *)
(* element is present, and a body with only the fallback element (with     *)
(* non-empty text) gives the fallback element's text.                      *)
(***************************************************************************)
C12_PrimaryFirst ==
    (epc = "returned" /\ outcomes # <<>> /\ Last.o = "2xx")
        => /\ (Last.body.primary \notin {Absent, ""}
                 => result = Value("Text", 0, 0, Last.body.primary))
           /\ ((Last.body.primary = Absent /\ Last.body.fallback \notin {Absent, ""})
                 => result = Value("Text", 0, 0, Last.body.fallback))

C12_Witness ==
    /\ epc = "returned"
    /\ Last.o = "2xx"
    /\ Last.body = [primary |-> "P", fallback |-> "F"]
    /\ result.text = "P"

(***************************************************************************)
(* C13. When the loaded table is empty (a file without rows, or no file:   *)
(* import_file then returns an empty DataFrame) process_urls returns       *)
(* without an HTTP request, without a wait, without writing an output      *)
(* file, and without raising.                                              *)
(***************************************************************************)
C13_EmptyTableNoWork ==
    (file.status = "not_found" \/ (file.status = "ok" /\ Len(file.rows) = 0))
        => /\ pc \in {"start", "done"}
           /\ (pc = "start" => ENABLED Start)
           /\ epc = "idle"
           /\ gets = 0
           /\ waits = 0
           /\ throttled = {}
           /\ write_calls = 0
           /\ ~output.written

C13_Witness ==
    /\ pc = "done"
    /\ file.status = "not_found"
    /\ df = <<>>
    /\ write_calls = 0

\* Rows are worked on one at a time: a call in progress belongs to the
\* current row, which is not recorded yet, and no later row has been
\* requested; a row that has been requested finds every earlier non-blank
\* row requested and recorded
SequentialState ==
    /\ (epc # "idle"
          => /\ pc = "extract"
             /\ index \in Rows
             /\ rowEnd[index] = "none"
             /\ \A j \in Rows : j > index => rowGets[j] = 0 /\ rowCalls[j] = 0)
    /\ \A i, j \in Rows :
          (i < j /\ NonBlank(Loaded[i].url) /\ rowGets[j] > 0)
              => rowGets[i] >= 1 /\ rowEnd[i] # "none"

\* A GET, a retry wait or the write of the results value of row i is a step
\* taken while i is the current row and no later row has been requested
SequentialStep ==
    \A i \in Rows :
        (\/ rowGets'[i] # rowGets[i]
         \/ rowEnd'[i] # rowEnd[i]
         \/ (index = i /\ waits' > waits))
            => /\ pc = "extract"
               /\ index = i
               /\ \A j \in Rows : j > i => rowGets[j] = 0 /\ rowGets'[j] = 0

(***************************************************************************)
(* C14. Rows are processed strictly one after the other: for rows i < j    *)
(* with non-blank urls, every GET and every retry wait of row i and the    *)
(* write of row i's results value come before the first GET of row j; the  *)
(* GETs of different rows never interleave.                                *)
(***************************************************************************)
C14_StrictlySequential == [](SequentialState) /\ [][SequentialStep]_vars

C14_Witness ==
    /\ Len(Loaded) >= 2
    /\ rowGets[1] = 3
    /\ rowEnd[1] = "timeout"
    /\ df[1].results = RequestTimeoutString
    /\ pc = "extract"
    /\ index = 2
    /\ epc = "sleep"
    /\ rowGets[2] = 2

\* A row is called at most once, a blank-url row never; a call made by
\* process_urls has max_retries = 2 and retry_delay = 5; a row that is not
\* recorded yet holds None; after the run every non-blank row was called once
OncePerRowState ==
    /\ (pc = "extract" => max_retries = 2 /\ retry_delay = 5)
    /\ \A i \in Rows :
          /\ rowCalls[i] <= 1
          /\ (~NonBlank(Loaded[i].url) => rowCalls[i] = 0)
          /\ ((df # <<>> /\ rowEnd[i] = "none") => df[i].results = None)
          /\ (Completed
                => rowCalls[i] = IF NonBlank(Loaded[i].url) THEN 1 ELSE 0)

\* The results value of row i is written by one step only: the one that
\* follows the return of the row's call, and it stores the returned value
OncePerRowStep ==
    \A i \in Rows :
        (pc # "start" /\ (df'[i].results # df[i].results \/ rowEnd'[i] # rowEnd[i]))
            => /\ rowEnd[i] = "none"
               /\ rowEnd'[i] # "none"
               /\ pc = "extract"
               /\ index = i
               /\ epc = "returned"
               /\ rowCalls[i] = 1
               /\ df'[i].results = result

(***************************************************************************)
(* C15. In one run of process_urls, extract_value_from_url is invoked      *)
(* exactly once for each row with a non-blank url (with max_retries = 2    *)
(* and retry_delay = 5) and never for a blank-url row, and each row's      *)
(* results field is written at most once, with the value returned by that  *)
(* one invocation.                                                         *)
(***************************************************************************)
C15_OncePerRow == [](OncePerRowState) /\ [][OncePerRowStep]_vars

C15_Witness ==
    /\ Completed
    /\ Len(Loaded) >= 2
    /\ rowCalls[1] = 1
    /\ rowGets[1] = 3
    /\ df[1].results = HTTPErrorString(403, 2)
    /\ Loaded[2].url = NaN
    /\ rowCalls[2] = 0

\* The budget of a call: at most max_retries + 1 GETs and max_retries waits
\* (403 and timeout share the one attempt counter); a wait is only entered
\* with a GET left, and is followed by that GET before anything else
BudgetState ==
    /\ gets <= max_retries + 1
    /\ waits <= max_retries
    /\ attempt = waits
    /\ (epc = "get" => gets = waits /\ gets <= max_retries /\ ENABLED GetSuccess)
    /\ (epc = "sleep" => gets = waits + 1 /\ gets <= max_retries
                         /\ ENABLED RetrySleep)
    /\ (epc = "returned" => gets >= 1 /\ gets = waits + 1)

BudgetStep ==
    waits' > waits => epc' = "get" /\ waits' = waits + 1 /\ gets' = gets

(***************************************************************************)
(* C16. For every max_retries >= 0 and every sequence of outcomes (403 and *)
(* timeout in any interleaving) a call terminates after at least 1 and at  *)
(* most max_retries + 1 GETs and at most max_retries retry waits; a retry  *)
(* wait is followed by exactly one further GET before the next wait or the *)
(* return, and never comes after the final attempt.                        *)
(***************************************************************************)
C16_TerminatesWithinBudget ==
    /\ [](BudgetState)
    /\ [][BudgetStep]_vars
    /\ <>(epc = "returned")

C16_Witness ==
    /\ epc = "returned"
    /\ max_retries >= 3
    /\ Met(1, 403) /\ MetTimeout(2) /\ Met(3, 403)
    /\ gets = max_retries + 1
    /\ waits = max_retries

(***************************************************************************)
(* C17. On a 2xx response None is returned only if neither selector        *)
(* matched: whenever a present element (primary or fallback) has non-empty *)
(* text, the call returns that text, so a primary element with empty text  *)
(* does not keep the fallback element's text from being returned; and      *)
(* every text returned is non-empty.                                       *)
(* Stated as claimed; it fails for a primary element with empty text and a *)
(* fallback element with text: None is returned.                           *)
(***************************************************************************)
C17_TextWheneverSomeElementHasText ==
    /\ result.kind = "Text" => result.text # ""
    /\ (epc = "returned" /\ outcomes # <<>> /\ Last.o = "2xx")
          => /\ (HasTargetText(Last.body)
                   => result.kind = "Text" /\ result.text \in TargetTexts(Last.body))
             /\ (result = None => ~HasTargetText(Last.body))

(***************************************************************************)
(* C17, amended. On a 2xx response the fallback element is looked up only  *)
(* when the primary element is absent. The call returns the text of the    *)
(* selected element (the primary one if present, else the fallback one)    *)
(* when that text is non-empty, and None otherwise: when neither element   *)
(* is present or the selected element's text is empty, so a primary        *)
(* element with empty text does keep the fallback element's text from      *)
(* being returned. Every text returned is non-empty.                       *)
(***************************************************************************)
C17_TextIffSelectedElementHasText ==
    /\ result.kind = "Text" => result.text \notin {"", NoneText}
    /\ (epc = "returned" /\ outcomes # <<>> /\ Last.o = "2xx")
          => /\ result.kind \in {"Text", "None"}
             /\ (result = None <=> ~SelectedHasText(Last.body))
             /\ (SelectedHasText(Last.body)
                   => result = Value("Text", 0, 0, SelectedText(Last.body)))

C17_Witness ==
    /\ epc = "returned"
    /\ Len(outcomes) = 1
    /\ Last.o = "2xx"
    /\ Last.body = [primary |-> "", fallback |-> "F"]
    /\ result = None

\* print_to_file is called at most once, after the loop has visited every
\* row and every non-blank row's call has returned and been recorded; what
\* is written is the whole table; a run that ends early writes nothing
WriteOnceState ==
    /\ write_calls <= 1
    /\ (write_calls = 1
          => /\ pc = "done"
             /\ epc = "idle"
             /\ Len(Loaded) > 0
             /\ index = Len(df) + 1
             /\ \A i \in Rows :
                   NonBlank(Loaded[i].url)
                       => rowCalls[i] = 1 /\ rowEnd[i] # "none")
    /\ (output.written
          => /\ write_calls = 1
             /\ output.rows = df
             /\ Len(output.rows) = Len(Loaded))
    /\ ((pc = "main_except" \/ Len(Loaded) = 0)
          => write_calls = 0 /\ ~output.written)

\* the output file changes in one step only, the one that ends the run
WriteOnceStep ==
    (output' # output \/ write_calls' # write_calls)
        => /\ ~output.written
           /\ write_calls = 0
           /\ pc = "loop"
           /\ pc' = "done"

(***************************************************************************)
(* C18. In a run of process_urls the output table is written at most once, *)
(* and only after every row has been processed (every non-blank row's      *)
(* extraction has returned and been recorded); no partial table is         *)
(* written, and a run that ends early (empty table, or an exception that   *)
(* reaches main) writes nothing.                                           *)
(***************************************************************************)
C18_WrittenOnceAtTheEnd == [](WriteOnceState) /\ [][WriteOnceStep]_vars

C18_Witness ==
    /\ output.written
    /\ write_calls = 1
    /\ Len(output.rows) >= 2
    /\ output.rows[1].results.kind = "Text"
    /\ output.rows[2].results = RequestExceptionString

====
